---------------------------- MODULE Spec2Model ----------------------------
(***************************************************************************)
(* Model of the USPA records pipeline: the scraper (usparecordsscrape.py)  *)
(* and the store loader (uspaupload.py).                                   *)
(*                                                                         *)
(* Python strings are sequences of character codes, so that upper(),       *)
(* strip(), split("/"), substring tests, float() and lexicographic order   *)
(* are computed as the code computes them.  Each literal carries its text  *)
(* in a comment.  None is the one-element sequence <<0>> and NaN is -1.    *)
(***************************************************************************)
EXTENDS Integers, Sequences, FiniteSets, TLC

(***************************************************************************)
(* Bounds of the model.                                                    *)
(***************************************************************************)
\* real rows of one payload handed to fill_all_vacancies
MaxRealRows == 2
\* fractional digits kept by the fixed-point image of Python floats
MaxDecimals == 2

None == <<0>>
NaN == 0 - 1
Scale == 10 ^ MaxDecimals

(***************************************************************************)
(* Reference data, usparecordsscrape.py lines 25-51 and 90-106.            *)
(***************************************************************************)

MENS_WEIGHT_CLASSES ==
    << <<53,50,107,103>>,   \* "52kg"
       <<53,54,107,103>>,   \* "56kg"
       <<54,48,107,103>>,   \* "60kg"
       <<54,55,46,53,107,103>>,   \* "67.5kg"
       <<55,53,107,103>>,   \* "75kg"
       <<56,50,46,53,107,103>>,   \* "82.5kg"
       <<57,48,107,103>>,   \* "90kg"
       <<49,48,48,107,103>>,   \* "100kg"
       <<49,49,48,107,103>>,   \* "110kg"
       <<49,50,53,107,103>>,   \* "125kg"
       <<49,52,48,107,103>>,   \* "140kg"
       <<49,52,48,43,107,103>> >>   \* "140+kg"

WOMENS_WEIGHT_CLASSES ==
    << <<52,52,107,103>>,   \* "44kg"
       <<52,56,107,103>>,   \* "48kg"
       <<53,50,107,103>>,   \* "52kg"
       <<53,54,107,103>>,   \* "56kg"
       <<54,48,107,103>>,   \* "60kg"
       <<54,55,46,53,107,103>>,   \* "67.5kg"
       <<55,53,107,103>>,   \* "75kg"
       <<56,50,46,53,107,103>>,   \* "82.5kg"
       <<57,48,107,103>>,   \* "90kg"
       <<49,48,48,107,103>>,   \* "100kg"
       <<49,49,48,107,103>>,   \* "110kg"
       <<49,49,48,43,107,103>> >>   \* "110+kg"

ALL_DIVISIONS_MEN ==
    << <<79,80,69,78,32,77,69,78>>,   \* "OPEN MEN"
       <<74,85,78,73,79,82,32,77,69,78,32,49,51,32,84,79,32,49,53>>,   \* "JUNIOR MEN 13 TO 15"
       <<74,85,78,73,79,82,32,77,69,78,32,49,54,32,84,79,32,49,55>>,   \* "JUNIOR MEN 16 TO 17"
       <<74,85,78,73,79,82,32,77,69,78,32,49,56,32,84,79,32,49,57>>,   \* "JUNIOR MEN 18 TO 19"
       <<74,85,78,73,79,82,32,77,69,78,32,50,48,32,84,79,32,50,51>>,   \* "JUNIOR MEN 20 TO 23"
       <<83,85,66,77,65,83,84,69,82,32,77,69,78,32,51,53,32,84,79,32,51,57>>,   \* "SUBMASTER MEN 35 TO 39"
       <<77,65,83,84,69,82,32,77,69,78,32,52,48,32,84,79,32,52,52>>,   \* "MASTER MEN 40 TO 44"
       <<77,65,83,84,69,82,32,77,69,78,32,52,53,32,84,79,32,52,57>>,   \* "MASTER MEN 45 TO 49"
       <<77,65,83,84,69,82,32,77,69,78,32,53,48,32,84,79,32,53,52>>,   \* "MASTER MEN 50 TO 54"
       <<77,65,83,84,69,82,32,77,69,78,32,53,53,32,84,79,32,53,57>>,   \* "MASTER MEN 55 TO 59"
       <<77,65,83,84,69,82,32,77,69,78,32,54,48,32,84,79,32,54,52>>,   \* "MASTER MEN 60 TO 64"
       <<77,65,83,84,69,82,32,77,69,78,32,54,53,32,84,79,32,54,57>>,   \* "MASTER MEN 65 TO 69"
       <<77,65,83,84,69,82,32,77,69,78,32,55,48,32,84,79,32,55,52>>,   \* "MASTER MEN 70 TO 74"
       <<77,65,83,84,69,82,32,77,69,78,32,55,53,32,84,79,32,55,57>>,   \* "MASTER MEN 75 TO 79"
       <<77,65,83,84,69,82,32,77,69,78,32,56,48,32,84,79,32,56,52>> >>   \* "MASTER MEN 80 TO 84"

ALL_DIVISIONS_WOMEN ==
    << <<79,80,69,78,32,87,79,77,69,78>>,   \* "OPEN WOMEN"
       <<74,85,78,73,79,82,32,87,79,77,69,78,32,49,51,32,84,79,32,49,53>>,   \* "JUNIOR WOMEN 13 TO 15"
       <<74,85,78,73,79,82,32,87,79,77,69,78,32,49,54,32,84,79,32,49,55>>,   \* "JUNIOR WOMEN 16 TO 17"
       <<74,85,78,73,79,82,32,87,79,77,69,78,32,49,56,32,84,79,32,49,57>>,   \* "JUNIOR WOMEN 18 TO 19"
       <<74,85,78,73,79,82,32,87,79,77,69,78,32,50,48,32,84,79,32,50,51>>,   \* "JUNIOR WOMEN 20 TO 23"
       <<83,85,66,77,65,83,84,69,82,32,87,79,77,69,78,32,51,53,32,84,79,32,51,57>>,   \* "SUBMASTER WOMEN 35 TO 39"
       <<77,65,83,84,69,82,32,87,79,77,69,78,32,52,48,32,84,79,32,52,52>>,   \* "MASTER WOMEN 40 TO 44"
       <<77,65,83,84,69,82,32,87,79,77,69,78,32,52,53,32,84,79,32,52,57>>,   \* "MASTER WOMEN 45 TO 49"
       <<77,65,83,84,69,82,32,87,79,77,69,78,32,53,48,32,84,79,32,53,52>>,   \* "MASTER WOMEN 50 TO 54"
       <<77,65,83,84,69,82,32,87,79,77,69,78,32,53,53,32,84,79,32,53,57>>,   \* "MASTER WOMEN 55 TO 59"
       <<77,65,83,84,69,82,32,87,79,77,69,78,32,54,48,32,84,79,32,54,52>>,   \* "MASTER WOMEN 60 TO 64"
       <<77,65,83,84,69,82,32,87,79,77,69,78,32,54,53,32,84,79,32,54,57>>,   \* "MASTER WOMEN 65 TO 69"
       <<77,65,83,84,69,82,32,87,79,77,69,78,32,55,48,32,84,79,32,55,52>>,   \* "MASTER WOMEN 70 TO 74"
       <<77,65,83,84,69,82,32,87,79,77,69,78,32,55,53,32,84,79,32,55,57>>,   \* "MASTER WOMEN 75 TO 79"
       <<77,65,83,84,69,82,32,87,79,77,69,78,32,56,48,32,84,79,32,56,52>> >>   \* "MASTER WOMEN 80 TO 84"

ALL_DIVISIONS == ALL_DIVISIONS_MEN \o ALL_DIVISIONS_WOMEN

states ==
    << <<97,108,97,98,97,109,97>>,   \* "alabama"
       <<97,108,97,115,107,97>>,   \* "alaska"
       <<97,114,105,122,111,110,97>>,   \* "arizona"
       <<97,114,107,97,110,115,97,115>>,   \* "arkansas"
       <<99,97,108,105,102,111,114,110,105,97>>,   \* "california"
       <<99,111,108,111,114,97,100,111>>,   \* "colorado"
       <<99,111,110,110,101,99,116,105,99,117,116>>,   \* "connecticut"
       <<100,101,108,97,119,97,114,101>>,   \* "delaware"
       <<102,108,111,114,105,100,97>>,   \* "florida"
       <<103,101,111,114,103,105,97>>,   \* "georgia"
       <<104,97,119,97,105,105>>,   \* "hawaii"
       <<105,100,97,104,111>>,   \* "idaho"
       <<105,108,108,105,110,111,105,115>>,   \* "illinois"
       <<105,110,100,105,97,110,97>>,   \* "indiana"
       <<105,111,119,97>>,   \* "iowa"
       <<107,97,110,115,97,115>>,   \* "kansas"
       <<107,101,110,116,117,99,107,121>>,   \* "kentucky"
       <<108,111,117,105,115,105,97,110,97>>,   \* "louisiana"
       <<109,97,105,110,101>>,   \* "maine"
       <<109,97,114,121,108,97,110,100>>,   \* "maryland"
       <<109,97,115,115,97,99,104,117,115,101,116,116,115>>,   \* "massachusetts"
       <<109,105,99,104,105,103,97,110>>,   \* "michigan"
       <<109,105,110,110,101,115,111,116,97>>,   \* "minnesota"
       <<109,105,115,115,105,115,115,105,112,112,105>>,   \* "mississippi"
       <<109,105,115,115,111,117,114,105>>,   \* "missouri"
       <<109,111,110,116,97,110,97>>,   \* "montana"
       <<110,101,98,114,97,115,107,97>>,   \* "nebraska"
       <<110,101,118,97,100,97>>,   \* "nevada"
       <<110,101,119,45,104,97,109,112,115,104,105,114,101>>,   \* "new-hampshire"
       <<110,101,119,45,106,101,114,115,101,121>>,   \* "new-jersey"
       <<110,101,119,45,109,101,120,105,99,111>>,   \* "new-mexico"
       <<110,101,119,45,121,111,114,107>>,   \* "new-york"
       <<110,111,114,116,104,45,99,97,114,111,108,105,110,97>>,   \* "north-carolina"
       <<110,111,114,116,104,45,100,97,107,111,116,97>>,   \* "north-dakota"
       <<111,104,105,111>>,   \* "ohio"
       <<111,107,108,97,104,111,109,97>>,   \* "oklahoma"
       <<111,114,101,103,111,110>>,   \* "oregon"
       <<112,101,110,110,115,121,108,118,97,110,105,97>>,   \* "pennsylvania"
       <<114,104,111,100,101,45,105,115,108,97,110,100>>,   \* "rhode-island"
       <<115,111,117,116,104,45,99,97,114,111,108,105,110,97>>,   \* "south-carolina"
       <<115,111,117,116,104,45,100,97,107,111,116,97>>,   \* "south-dakota"
       <<116,101,110,110,101,115,115,101,101>>,   \* "tennessee"
       <<116,101,120,97,115>>,   \* "texas"
       <<117,116,97,104>>,   \* "utah"
       <<118,101,114,109,111,110,116>>,   \* "vermont"
       <<118,105,114,103,105,110,105,97>>,   \* "virginia"
       <<119,97,115,104,105,110,103,116,111,110>>,   \* "washington"
       <<119,101,115,116,45,118,105,114,103,105,110,105,97>>,   \* "west-virginia"
       <<119,105,115,99,111,110,115,105,110>>,   \* "wisconsin"
       <<119,121,111,109,105,110,103>> >>   \* "wyoming"

special_locations ==
    << <<110,97,116,105,111,110,97,108>>,   \* "national"
       <<105,112,108,45,119,111,114,108,100>> >>   \* "ipl-world"

locations == states \o special_locations

events ==
    << <<114,97,119,45,112,111,119,101,114,108,105,102,116,105,110,103>>,   \* "raw-powerlifting"
       <<99,108,97,115,115,105,99,45,112,111,119,101,114,108,105,102,116,105,110,103>>,   \* "classic-powerlifting"
       <<114,97,119,45,98,101,110,99,104,45,111,110,108,121>>,   \* "raw-bench-only"
       <<114,97,119,45,100,101,97,100,108,105,102,116,45,111,110,108,121>>,   \* "raw-deadlift-only"
       <<115,105,110,103,108,101,45,112,108,121,45,112,111,119,101,114,108,105,102,116,105,110,103>>,   \* "single-ply-powerlifting"
       <<115,105,110,103,108,101,45,112,108,121,45,98,101,110,99,104,45,111,110,108,121>>,   \* "single-ply-bench-only"
       <<115,105,110,103,108,101,45,112,108,121,45,100,101,97,100,108,105,102,116,45,111,110,108,121>>,   \* "single-ply-deadlift-only"
       <<109,117,108,116,105,45,112,108,121,45,112,111,119,101,114,108,105,102,116,105,110,103>>,   \* "multi-ply-powerlifting"
       <<109,117,108,116,105,45,112,108,121,45,98,101,110,99,104,45,111,110,108,121>>,   \* "multi-ply-bench-only"
       <<109,117,108,116,105,45,112,108,121,45,100,101,97,100,108,105,102,116,45,111,110,108,121>> >>   \* "multi-ply-deadlift-only"

statuses ==
    << <<100,114,117,103,45,116,101,115,116,101,100>>,   \* "drug-tested"
       <<110,111,110,45,116,101,115,116,101,100>> >>   \* "non-tested"

Squat == <<83,113,117,97,116>>   \* "Squat"
Bench == <<66,101,110,99,104>>   \* "Bench"
Deadlift == <<68,101,97,100,108,105,102,116>>   \* "Deadlift"
TOTAL == <<84,79,84,65,76>>   \* "TOTAL"
NoExistingRecord == <<78,111,32,101,120,105,115,116,105,110,103,32,114,101,99,111,114,100>>   \* "No existing record"

(***************************************************************************)
(* Python string operations on character-code sequences.                   *)
(***************************************************************************)
Min(S) == CHOOSE x \in S : \A y \in S : x <= y
Max(S) == CHOOSE x \in S : \A y \in S : y <= x

\* str.upper() / str.lower() on ASCII text
Upper(s) == [i \in 1..Len(s) |-> IF s[i] \in 97..122 THEN s[i] - 32 ELSE s[i]]
Lower(s) == [i \in 1..Len(s) |-> IF s[i] \in 65..90 THEN s[i] + 32 ELSE s[i]]

\* the ASCII characters str.strip() removes
IsSpace(c) == c \in {9, 10, 11, 12, 13, 28, 29, 30, 31, 32}

\* str.strip()
Strip(s) ==
    LET keep == {i \in 1..Len(s) : ~IsSpace(s[i])}
    IN  IF keep = {} THEN <<>> ELSE SubSeq(s, Min(keep), Max(keep))

\* sub in s
Contains(sub, s) ==
    \E i \in 1..(Len(s) - Len(sub) + 1) : SubSeq(s, i, i + Len(sub) - 1) = sub

\* s.endswith(suf)
EndsWith(s, suf) ==
    /\ Len(suf) <= Len(s)
    /\ SubSeq(s, Len(s) - Len(suf) + 1, Len(s)) = suf

\* s.split(sep)[0] for a one-character separator
SplitFirst(s, sep) ==
    LET at == {i \in 1..Len(s) : s[i] = sep}
    IN  IF at = {} THEN s ELSE SubSeq(s, 1, Min(at) - 1)

\* s.replace(old, ""), leftmost non-overlapping occurrences
RECURSIVE Remove(_, _)
Remove(s, old) ==
    IF Len(s) < Len(old) \/ Len(old) = 0 THEN s
    ELSE IF SubSeq(s, 1, Len(old)) = old
         THEN Remove(SubSeq(s, Len(old) + 1, Len(s)), old)
         ELSE <<s[1]>> \o Remove(Tail(s), old)

\* sep.join(parts)
RECURSIVE Join(_, _)
Join(sep, parts) ==
    IF parts = <<>> THEN <<>>
    ELSE IF Len(parts) = 1 THEN parts[1]
    ELSE parts[1] \o sep \o Join(sep, Tail(parts))

\* a < b on Python strings: lexicographic on code points
RECURSIVE StrLess(_, _)
StrLess(a, b) ==
    IF b = <<>> THEN FALSE
    ELSE IF a = <<>> THEN TRUE
    ELSE IF a[1] # b[1] THEN a[1] < b[1]
    ELSE StrLess(Tail(a), Tail(b))

\* sorted(S) for a set of strings
RECURSIVE SortedStrings(_)
SortedStrings(S) ==
    IF S = {} THEN <<>>
    ELSE LET m == CHOOSE x \in S : \A y \in S \ {x} : StrLess(x, y)
         IN  <<m>> \o SortedStrings(S \ {m})

\* sorted(S) for a set of numbers
RECURSIVE SortedNumbers(_)
SortedNumbers(S) ==
    IF S = {} THEN <<>>
    ELSE LET m == Min(S) IN <<m>> \o SortedNumbers(S \ {m})

RECURSIVE Flatten(_)
Flatten(ss) == IF ss = <<>> THEN <<>> ELSE Head(ss) \o Flatten(Tail(ss))

Range(s) == {s[i] : i \in 1..Len(s)}

\* Series.unique(): the distinct values in order of first appearance
Unique(s) ==
    LET first == {i \in 1..Len(s) : \A j \in 1..(i - 1) : s[j] # s[i]}
        idx == SortedNumbers(first)
    IN  [k \in 1..Len(idx) |-> s[idx[k]]]

RECURSIVE DigitsValue(_)
DigitsValue(d) ==
    IF d = <<>> THEN 0 ELSE 10 * DigitsValue(SubSeq(d, 1, Len(d) - 1)) + (d[Len(d)] - 48)

\* float(s) as a fixed-point number (value * Scale), NaN where Python raises
\* ValueError; covers the unsigned decimal literals "12", "12.5", "12." and ".5"
\* with at most MaxDecimals fractional digits
Float(s) ==
    LET t == Strip(s)
        dots == {i \in 1..Len(t) : t[i] = 46}
        dot == IF dots = {} THEN Len(t) + 1 ELSE Min(dots)
        ip == SubSeq(t, 1, dot - 1)
        fp == SubSeq(t, dot + 1, Len(t))
    IN  IF /\ Cardinality(dots) <= 1
           /\ Len(ip) + Len(fp) >= 1
           /\ Len(fp) <= MaxDecimals
           /\ \A i \in 1..Len(t) : t[i] \in 48..57 \/ i = dot
        THEN DigitsValue(ip) * Scale + DigitsValue(fp) * 10 ^ (MaxDecimals - Len(fp))
        ELSE NaN

(***************************************************************************)
(* The completion engine, usparecordsscrape.py lines 145-253.              *)
(***************************************************************************)
\* LIFT_ORDER, with the fillna(99) of line 247 for a lift it does not list
LIFT_ORDER(lift) ==
    IF lift = Squat THEN 0
    ELSE IF lift = Bench THEN 1
    ELSE IF lift = Deadlift THEN 2
    ELSE IF lift = TOTAL THEN 3
    ELSE 99

\* '60kg/132.2lb' -> '60kg'
_extract_kg(weight_class) == Strip(SplitFirst(weight_class, 47))

\* float(kg[:-1]) of line 157 raises ValueError outside any try
_wc_sort_key_raises(weight_class) ==
    LET kg == Remove(_extract_kg(weight_class), <<107,103>>)   \* "kg"
    IN  /\ EndsWith(kg, <<43>>)   \* "+"
        /\ Float(SubSeq(kg, 1, Len(kg) - 1)) = NaN

_wc_sort_key(weight_class) ==
    LET kg == Remove(_extract_kg(weight_class), <<107,103>>)   \* "kg"
    IN  IF EndsWith(kg, <<43>>)   \* "+"
        THEN Float(SubSeq(kg, 1, Len(kg) - 1)) + Scale \div 10
        ELSE IF Float(kg) = NaN THEN 9999 * Scale ELSE Float(kg)

UnisexWeightClasses == SortedStrings(Range(MENS_WEIGHT_CLASSES \o WOMENS_WEIGHT_CLASSES))

_expected_weight_classes(division) ==
    LET div == Upper(division)
    IN  IF Contains(<<87,79,77,69,78>>, div) THEN WOMENS_WEIGHT_CLASSES   \* "WOMEN"
        ELSE IF Contains(<<77,69,78>>, div) THEN MENS_WEIGHT_CLASSES   \* "MEN"
        ELSE UnisexWeightClasses

_expected_lifts(event) ==
    LET e == Lower(event)
    IN  IF Contains(<<98,101,110,99,104,45,111,110,108,121>>, e)   \* "bench-only"
        THEN <<Bench>>
        ELSE IF Contains(<<100,101,97,100,108,105,102,116,45,111,110,108,121>>, e)   \* "deadlift-only"
        THEN <<Deadlift>>
        ELSE <<Squat, Bench, Deadlift, TOTAL>>

\* the placeholder dict of _add_if_missing, lines 212-224
PlaceholderRow(division, lift, wc, location, event, status) ==
    [Division |-> division, WeightClass |-> wc, Lift |-> lift,
     Name |-> NoExistingRecord, Kilos |-> NaN, Pounds |-> NaN, Date |-> None,
     Location |-> location, Event |-> event, Status |-> status, HasRecord |-> FALSE]

\* the set of (division_upper, lift, wc_kg) of the real records, lines 199-206
Existing(df) ==
    LET real == SelectSeq(df, LAMBDA r : r.HasRecord = TRUE)
    IN  {<<Upper(real[i].Division), real[i].Lift, _extract_kg(real[i].WeightClass)>> :
            i \in 1..Len(real)}

\* _add_if_missing: the test of line 211
IsMissing(existing, division, lift, wc) == <<Upper(division), lift, wc>> \notin existing

\* the loops "for lift in lifts: for wc in _expected_weight_classes(division)"
\* of lines 228-230 and 236-238 for one division
DivisionPlaceholders(existing, division, lifts, location, event, status) ==
    LET wcs == _expected_weight_classes(division)
        n == Len(wcs)
        all == [k \in 1..(Len(lifts) * n) |->
                   <<lifts[((k - 1) \div n) + 1], wcs[((k - 1) % n) + 1]>>]
        missing == SelectSeq(all, LAMBDA p : IsMissing(existing, division, p[1], p[2]))
    IN  [k \in 1..Len(missing) |->
            PlaceholderRow(division, missing[k][1], missing[k][2], location, event, status)]

\* the divisions of the CSV that line 235 finds not covered by ALL_DIVISIONS
UnknownDivisions(df) ==
    LET real == SelectSeq(df, LAMBDA r : r.HasRecord = TRUE)
        known_upper == {Upper(d) : d \in Range(ALL_DIVISIONS)}
        seen == Unique([i \in 1..Len(real) |-> real[i].Division])
    IN  SelectSeq(seen, LAMBDA d : Upper(d) \notin known_upper)

\* placeholder_rows after both loops, lines 208-238
PlaceholderRows(df, location, event, status) ==
    LET lifts == _expected_lifts(event)
        existing == Existing(df)
        divisions == ALL_DIVISIONS \o UnknownDivisions(df)
    IN  Flatten([d \in 1..Len(divisions) |->
            DivisionPlaceholders(existing, divisions[d], lifts, location, event, status)])

\* sort_values(["Division", "_wc_sort", "_lift_sort"]) of lines 246-252 on the
\* rows paired with their two key columns: a stable sort, computed key by key
\* as the groups of equal keys in key order
SortByLift(keyed) ==
    LET keys == SortedNumbers({keyed[i][3] : i \in 1..Len(keyed)})
    IN  Flatten([k \in 1..Len(keys) |-> SelectSeq(keyed, LAMBDA r : r[3] = keys[k])])

SortByWeightClass(keyed) ==
    LET keys == SortedNumbers({keyed[i][2] : i \in 1..Len(keyed)})
    IN  Flatten([k \in 1..Len(keys) |->
            SortByLift(SelectSeq(keyed, LAMBDA r : r[2] = keys[k]))])

SortValues(keyed) ==
    LET keys == SortedStrings({keyed[i][1].Division : i \in 1..Len(keyed)})
    IN  Flatten([k \in 1..Len(keys) |->
            SortByWeightClass(SelectSeq(keyed, LAMBDA r : r[1].Division = keys[k]))])

\* lines 246-253: the two key columns added, the sort, the key columns dropped
SortedFrame(combined) ==
    LET keyed == [i \in 1..Len(combined) |->
                     <<combined[i], _wc_sort_key(combined[i].WeightClass),
                       LIFT_ORDER(combined[i].Lift)>>]
        sorted == SortValues(keyed)
    IN  [i \in 1..Len(sorted) |-> sorted[i][1]]

\* fill_all_vacancies with the weight class of the real rows cut to its kg part
fill_all_vacancies_kg_only(df, location, event, status) ==
    LET cut == [i \in 1..Len(df) |-> [df[i] EXCEPT !.WeightClass = _extract_kg(@)]]
    IN  SortedFrame(cut \o PlaceholderRows(df, location, event, status))

fill_all_vacancies(df, location, event, status) ==
    SortedFrame(df \o PlaceholderRows(df, location, event, status))

(***************************************************************************)
(* The raw record parser, usparecordsscrape.py lines 256-294.              *)
(*                                                                         *)
(* A downloaded file is [readable, lines]: lines is the file as csv.reader *)
(* yields it, a sequence of lines, each a sequence of fields, the header   *)
(* first; readable is FALSE when open() raises OSError.  A function that   *)
(* returns "DataFrame | None" returns [is_none, rows].                     *)
(***************************************************************************)
NoneFrame == [is_none |-> TRUE, rows |-> <<>>]
Frame(rows) == [is_none |-> FALSE, rows |-> rows]

\* pd.to_numeric(errors="coerce") on one cell
to_numeric(cell) == Float(cell)

\* raw[3:-3]
NameFields(raw) == SubSeq(raw, 4, Len(raw) - 3)

\* ParseLine taking the first seven fields of a longer line as they stand
ParseLine_positional(raw) ==
    IF Len(raw) >= 7 THEN <<SubSeq(raw, 1, 7)>> ELSE <<>>

\* the row appended for one line by lines 275-283, <<>> when none is
ParseLine(raw) ==
    IF Len(raw) = 0 THEN <<>>
    ELSE IF Len(raw) = 7 THEN <<raw>>
    ELSE IF Len(raw) > 7
         THEN LET name == Strip(Join(<<44,32>>, NameFields(raw)))   \* ", "
              IN  <<<<raw[1], raw[2], raw[3], name,
                      raw[Len(raw) - 2], raw[Len(raw) - 1], raw[Len(raw)]>>>>
    ELSE <<>>

\* pd.DataFrame(rows, columns=COLS) with Kilos and Pounds coerced, lines 290-293
DataFrameRow(row) ==
    [Division |-> row[1], WeightClass |-> row[2], Lift |-> row[3], Name |-> row[4],
     Kilos |-> to_numeric(row[5]), Pounds |-> to_numeric(row[6]), Date |-> row[7]]

_read_csv_robust(csv_file) ==
    IF ~csv_file.readable THEN NoneFrame   \* OSError
    ELSE IF csv_file.lines = <<>> THEN NoneFrame   \* StopIteration on the header
    ELSE LET lines == csv_file.lines
             rows == Flatten([k \in 1..(Len(lines) - 1) |-> ParseLine(lines[k + 1])])
         IN  IF rows = <<>> THEN NoneFrame
             ELSE Frame([k \in 1..Len(rows) |-> DataFrameRow(rows[k])])

(***************************************************************************)
(* The query space and one page visit, lines 108-112 and 297-369.          *)
(***************************************************************************)
base_url == <<104,116,116,112,115,58,47,47,114,101,99,111,114,100,115,46,117,115,112,97,46,110,101,116,47,114,101,99,111,114,100,115,46,112,104,112>>   \* "https://records.uspa.net/records.php"

\* f"{base_url}?location={location}&status={status}&event={event}"
Url(location, status, event) ==
    base_url \o <<63,108,111,99,97,116,105,111,110,61>> \o location   \* "?location="
             \o <<38,115,116,97,116,117,115,61>> \o status   \* "&status="
             \o <<38,101,118,101,110,116,61>> \o event   \* "&event="

\* s.split(sep) for a one-character separator
RECURSIVE Split(_, _)
Split(s, sep) ==
    LET at == {i \in 1..Len(s) : s[i] = sep}
    IN  IF at = {} THEN <<s>>
        ELSE <<SubSeq(s, 1, Min(at) - 1)>> \o Split(SubSeq(s, Min(at) + 1, Len(s)), sep)

\* parse_qs(urlparse(url).query)[key][0], and default when the key is absent
QueryParam(url, key, default) ==
    LET q == {i \in 1..Len(url) : url[i] = 63}   \* "?"
        query == IF q = {} THEN <<>> ELSE SubSeq(url, Min(q) + 1, Len(url))
        pairs == Split(query, 38)   \* "&"
        hits == SelectSeq(pairs, LAMBDA p : SubSeq(p, 1, Len(key) + 1) = key \o <<61>>)   \* "="
    IN  IF hits = <<>> THEN default
        ELSE SubSeq(hits[1], Len(key) + 2, Len(hits[1]))

location_value(url) == QueryParam(url, <<108,111,99,97,116,105,111,110>>, None)   \* "location"
status_value(url) == QueryParam(url, <<115,116,97,116,117,115>>, None)   \* "status"
event_value(url) == QueryParam(url, <<101,118,101,110,116>>, <<>>)   \* "event"

\* no_record_row(), lines 310-316
no_record_row(url) ==
    <<[Division |-> None, WeightClass |-> None, Lift |-> None,
       Name |-> None, Kilos |-> NaN, Pounds |-> NaN, Date |-> None,
       Location |-> location_value(url), Event |-> event_value(url),
       Status |-> status_value(url), HasRecord |-> FALSE]>>

\* df["Location"], df["Event"], df["Status"], df["HasRecord"] of lines 348-351
WithQueryColumns(df, url) ==
    [k \in 1..Len(df) |->
        [Division |-> df[k].Division, WeightClass |-> df[k].WeightClass,
         Lift |-> df[k].Lift, Name |-> df[k].Name, Kilos |-> df[k].Kilos,
         Pounds |-> df[k].Pounds, Date |-> df[k].Date,
         Location |-> location_value(url), Event |-> event_value(url),
         Status |-> status_value(url), HasRecord |-> TRUE]]

\* scrape_url with the visits that yield no record returned as an empty frame
scrape_url_empty_frame(page, url) ==
    IF page.kind \in {"get_error", "iframe_timeout", "click_error"} THEN NoneFrame
    ELSE IF page.kind \in {"no_button", "download_timeout"} THEN Frame(<<>>)
    ELSE LET parsed == _read_csv_robust(page.payload)
         IN  IF parsed.is_none THEN Frame(<<>>)
             ELSE LET df == WithQueryColumns(parsed.rows, url)
                  IN  IF df = <<>> THEN Frame(<<>>)
                      ELSE IF \E k \in 1..Len(df) : _wc_sort_key_raises(df[k].WeightClass)
                           THEN NoneFrame
                           ELSE Frame(fill_all_vacancies(df, location_value(url),
                                          event_value(url), status_value(url)))

\* scrape_url with every exception answered by the row of no_record_row
scrape_url_failure_row(page, url) ==
    IF page.kind \in {"get_error", "iframe_timeout", "click_error"}
    THEN Frame(no_record_row(url))
    ELSE IF page.kind \in {"no_button", "download_timeout"} THEN Frame(no_record_row(url))
    ELSE LET parsed == _read_csv_robust(page.payload)
         IN  IF parsed.is_none THEN Frame(no_record_row(url))
             ELSE LET df == WithQueryColumns(parsed.rows, url)
                  IN  IF df = <<>> THEN Frame(no_record_row(url))
                      ELSE IF \E k \in 1..Len(df) : _wc_sort_key_raises(df[k].WeightClass)
                           THEN Frame(no_record_row(url))
                           ELSE Frame(fill_all_vacancies(df, location_value(url),
                                          event_value(url), status_value(url)))

(***************************************************************************)
(* What the source site does for one visit: page.kind is                   *)
(*   "get_error"         driver.get raises (line 318)                      *)
(*   "iframe_timeout"    the wait for content-iframe times out (line 321)  *)
(*   "no_button"         no Download CSV button within 10 s (line 331)     *)
(*   "click_error"       an exception while scrolling or clicking (335-6)  *)
(*   "download_timeout"  wait_for_download returns None (line 340)         *)
(*   "csv"               page.payload is the downloaded file               *)
(***************************************************************************)
scrape_url(page, url) ==
    IF page.kind \in {"get_error", "iframe_timeout"}
    THEN NoneFrame   \* raised to process_url, which sets df = None at line 392
    ELSE IF page.kind = "no_button" THEN Frame(no_record_row(url))
    ELSE IF page.kind = "click_error" THEN NoneFrame   \* line 366
    ELSE IF page.kind = "download_timeout" THEN Frame(no_record_row(url))
    ELSE LET parsed == _read_csv_robust(page.payload)
         IN  IF parsed.is_none THEN Frame(no_record_row(url))
             ELSE LET df == WithQueryColumns(parsed.rows, url)
                  IN  IF df = <<>> THEN Frame(no_record_row(url))
                      ELSE IF \E k \in 1..Len(df) : _wc_sort_key_raises(df[k].WeightClass)
                           THEN NoneFrame   \* ValueError of line 157, caught at line 362
                           ELSE Frame(fill_all_vacancies(df, location_value(url),
                                          event_value(url), status_value(url)))

(***************************************************************************)
(* Sample downloads: the header line and data lines as csv.reader yields    *)
(* them.                                                                   *)
(***************************************************************************)
Header ==
        << <<68,105,118,105,115,105,111,110>>,
       <<87,101,105,103,104,116,32,67,108,97,115,115>>,
       <<76,105,102,116>>,
       <<78,97,109,101>>,
       <<75,105,108,111,115>>,
       <<80,111,117,110,100,115>>,
       <<68,97,116,101>> >>

SampleRecords ==
    << \* "OPEN MEN", "82.5kg/181.9lb", "Bench", "J. Doe", "150", "330.7", "2023-01-01"
       << <<79,80,69,78,32,77,69,78>>,
          <<56,50,46,53,107,103,47,49,56,49,46,57,108,98>>,
          <<66,101,110,99,104>>,
          <<74,46,32,68,111,101>>,
          <<49,53,48>>,
          <<51,51,48,46,55>>,
          <<50,48,50,51,45,48,49,45,48,49>> >>,
       \* "Guest Men", "60kg/132.2lb", "Bench", "A. Roe", "100", "220.5", "2023-01-01"
       << <<71,117,101,115,116,32,77,101,110>>,
          <<54,48,107,103,47,49,51,50,46,50,108,98>>,
          <<66,101,110,99,104>>,
          <<65,46,32,82,111,101>>,
          <<49,48,48>>,
          <<50,50,48,46,53>>,
          <<50,48,50,51,45,48,49,45,48,49>> >>,
       \* "GUEST MEN", "60kg/132.2lb", "Squat", "A. Roe", "120", "264.6", "2023-01-01"
       << <<71,85,69,83,84,32,77,69,78>>,
          <<54,48,107,103,47,49,51,50,46,50,108,98>>,
          <<83,113,117,97,116>>,
          <<65,46,32,82,111,101>>,
          <<49,50,48>>,
          <<50,54,52,46,54>>,
          <<50,48,50,51,45,48,49,45,48,49>> >>,
       \* "open men", "140+kg/SHW", "Deadlift", "J. Doe", "300", "661.4", "2023-01-01"
       << <<111,112,101,110,32,109,101,110>>,
          <<49,52,48,43,107,103,47,83,72,87>>,
          <<68,101,97,100,108,105,102,116>>,
          <<74,46,32,68,111,101>>,
          <<51,48,48>>,
          <<54,54,49,46,52>>,
          <<50,48,50,51,45,48,49,45,48,49>> >>,
       \* "GUEST", "44kg/97lb", "Squat", "A. Roe", "60", "132.3", "2023-01-01"
       << <<71,85,69,83,84>>,
          <<52,52,107,103,47,57,55,108,98>>,
          <<83,113,117,97,116>>,
          <<65,46,32,82,111,101>>,
          <<54,48>>,
          <<49,51,50,46,51>>,
          <<50,48,50,51,45,48,49,45,48,49>> >>,
       \* "OPEN WOMEN", "110+kg/SHW", "TOTAL", "A. Roe", "500", "1102.3", "2023-01-01"
       << <<79,80,69,78,32,87,79,77,69,78>>,
          <<49,49,48,43,107,103,47,83,72,87>>,
          <<84,79,84,65,76>>,
          <<65,46,32,82,111,101>>,
          <<53,48,48>>,
          <<49,49,48,50,46,51>>,
          <<50,48,50,51,45,48,49,45,48,49>> >> >>

SampleLines ==
    << \* (a blank line)
       <<>>,
       \* "OPEN MEN", "60kg/132.2lb", "Bench"
       << <<79,80,69,78,32,77,69,78>>,
          <<54,48,107,103,47,49,51,50,46,50,108,98>>,
          <<66,101,110,99,104>> >>,
       \* "OPEN MEN", "60kg/132.2lb", "Bench", "J. Doe", "150", "330.7"
       << <<79,80,69,78,32,77,69,78>>,
          <<54,48,107,103,47,49,51,50,46,50,108,98>>,
          <<66,101,110,99,104>>,
          <<74,46,32,68,111,101>>,
          <<49,53,48>>,
          <<51,51,48,46,55>> >>,
       \* "OPEN MEN", "82.5kg/181.9lb", "Bench", " J. Doe ", "150", "n/a", "2023-01-01"
       << <<79,80,69,78,32,77,69,78>>,
          <<56,50,46,53,107,103,47,49,56,49,46,57,108,98>>,
          <<66,101,110,99,104>>,
          <<32,74,46,32,68,111,101,32>>,
          <<49,53,48>>,
          <<110,47,97>>,
          <<50,48,50,51,45,48,49,45,48,49>> >>,
       \* "OPEN MEN", "82.5kg/181.9lb", "Bench", "Doe", " J.", "150", "330.7", "2023-01-01"
       << <<79,80,69,78,32,77,69,78>>,
          <<56,50,46,53,107,103,47,49,56,49,46,57,108,98>>,
          <<66,101,110,99,104>>,
          <<68,111,101>>,
          <<32,74,46>>,
          <<49,53,48>>,
          <<51,51,48,46,55>>,
          <<50,48,50,51,45,48,49,45,48,49>> >>,
       \* "OPEN MEN", "82.5kg/181.9lb", "Bench", " Doe", "J. ", "150", "330.7", "2023-01-01"
       << <<79,80,69,78,32,77,69,78>>,
          <<56,50,46,53,107,103,47,49,56,49,46,57,108,98>>,
          <<66,101,110,99,104>>,
          <<32,68,111,101>>,
          <<74,46,32>>,
          <<49,53,48>>,
          <<51,51,48,46,55>>,
          <<50,48,50,51,45,48,49,45,48,49>> >>,
       \* "OPEN MEN", "82.5kg/181.9lb", "Bench", "Smith", " John", " Jr", "150", "330.7", "2023-01-01"
       << <<79,80,69,78,32,77,69,78>>,
          <<56,50,46,53,107,103,47,49,56,49,46,57,108,98>>,
          <<66,101,110,99,104>>,
          <<83,109,105,116,104>>,
          <<32,74,111,104,110>>,
          <<32,74,114>>,
          <<49,53,48>>,
          <<51,51,48,46,55>>,
          <<50,48,50,51,45,48,49,45,48,49>> >> >>

\* the downloaded file holding the header and the given data lines
CsvFile(lines) == [readable |-> TRUE, lines |-> <<Header>> \o lines]

\* every sequence of 'low' to 'high' elements of the sequence 'pool'
SeqsOver(pool, low, high) ==
    UNION {{[i \in 1..n |-> pool[f[i]]] : f \in [1..n -> 1..Len(pool)]} : n \in low..high}

(***************************************************************************)
(* State.                                                                  *)
(***************************************************************************)
VARIABLES
    \* one call of fill_all_vacancies: its arguments (df and the page's url),
    \* its return value, and where the call stands
    fill_df, fill_url, fill_out, fill_pc,
    \* one call of _read_csv_robust: the downloaded file, the return value, and
    \* where the call stands
    csv_file, parse_out, parse_pc,
    \* uspaupload.py: records (line 50), the loop variable i (line 61, upload_i
    \* here: i names bound variables throughout), the rows
    \* of the destination table, the operations the store has executed, and
    \* where the script stands
    records, upload_i, table, store_ops, upload_pc,
    \* usparecordsscrape.py as a process.
    \* source: per url, [page, is_none, len]: the index into Pages of what the
    \*   site serves for it, whether the df scraped from it is None, and len(df)
    \* CHECKPOINT_FILE: [exists, lines]
    \* OUTPUT_FILE: [exists, writes], the writes that reached the file in order,
    \*   each [k, from, to]: rows from..to of the frame scraped for urls[k]
    \*   (k = 0: the header line)
    \* completed_urls, remaining_urls, rows_written, lock: as in the source
    \* queue: the arguments (their i) submitted and not yet taken by a thread
    \* futures: the state of the future of each argument
    \* worker: per pool thread, [pc, i, driver, written]: where it stands in
    \*   process_url, the i of its argument, whether its thread-local driver
    \*   exists, the rows of df that to_csv has written so far
    \* requested: the urls passed to driver.get by this process
    \* main_pc: where the main thread stands; restarts: the kills of
    \*   the process so far, each followed by a restart
    source, CHECKPOINT_FILE, OUTPUT_FILE, completed_urls, remaining_urls,
    rows_written, lock, queue, futures, worker, requested, main_pc, restarts

fillVars == <<fill_df, fill_url, fill_out, fill_pc>>
parseVars == <<csv_file, parse_out, parse_pc>>
uploadVars == <<records, upload_i, table, store_ops, upload_pc>>
runVars == <<source, CHECKPOINT_FILE, OUTPUT_FILE, completed_urls, remaining_urls,
             rows_written, lock, queue, futures, worker, requested, main_pc, restarts>>
vars == <<fillVars, parseVars, uploadVars, runVars>>

\* no call of fill_all_vacancies, no call of _read_csv_robust, no load going on
FillIdle == fill_df = <<>> /\ fill_url = <<>> /\ fill_out = <<>> /\ fill_pc = "idle"
ParseIdle == csv_file = CsvFile(<<>>) /\ parse_out = NoneFrame /\ parse_pc = "idle"
UploadIdle ==
    records = <<>> /\ upload_i = 0 /\ table = <<>> /\ store_ops = <<>> /\ upload_pc = "idle"
RunIdle ==
    /\ source = <<>> /\ CHECKPOINT_FILE = [exists |-> FALSE, lines |-> <<>>]
    /\ OUTPUT_FILE = [exists |-> FALSE, writes |-> <<>>]
    /\ completed_urls = {} /\ remaining_urls = <<>> /\ rows_written = 0
    /\ lock = FALSE /\ queue = <<>> /\ futures = <<>> /\ worker = <<>>
    /\ requested = {} /\ main_pc = "idle" /\ restarts = 0

(***************************************************************************)
(* The completion engine called on the frame of one page, as scrape_url    *)
(* calls it at line 357: every row real, at least one row.                 *)
(***************************************************************************)
FillUrls ==
    {Url(states[1], statuses[1], events[1]),   \* raw-powerlifting
     Url(states[1], statuses[1], events[3])}   \* raw-bench-only

FillInit ==
    /\ fill_url \in FillUrls
    /\ \E lines \in SeqsOver(SampleRecords, 1, MaxRealRows) :
           fill_df = WithQueryColumns(_read_csv_robust(CsvFile(lines)).rows, fill_url)
    /\ fill_out = <<>>
    /\ fill_pc = "call"
    /\ ParseIdle /\ UploadIdle /\ RunIdle

FillAllVacancies ==
    /\ fill_pc = "call"
    /\ fill_out' = fill_all_vacancies(fill_df, location_value(fill_url),
                                      event_value(fill_url), status_value(fill_url))
    /\ fill_pc' = "returned"
    /\ UNCHANGED <<fill_df, fill_url, parseVars, uploadVars, runVars>>

FillNext == FillAllVacancies

SpecFill == FillInit /\ [][FillNext]_vars

\* the (division upper-cased, lift, kg weight class) of a row
ComboOf(r) == <<Upper(r.Division), r.Lift, _extract_kg(r.WeightClass)>>

\* the combinations the real rows of the call hold
PresentCombos == {ComboOf(fill_df[i]) : i \in {j \in 1..Len(fill_df) : fill_df[j].HasRecord}}

\* the expected universe of the call: the reference divisions and every division
\* of the real rows, compared case-insensitively, by the lifts of the event, by
\* the gender-inferred weight classes of the division
ExpectedUniverse ==
    LET divs == {Upper(d) : d \in Range(ALL_DIVISIONS)}
                    \cup {Upper(fill_df[i].Division) : i \in 1..Len(fill_df)}
        lifts == Range(_expected_lifts(event_value(fill_url)))
    IN  UNION {{<<d, l, w>> : l \in lifts, w \in Range(_expected_weight_classes(d))} :
                  d \in divs}

\* the combinations of the placeholder rows returned, one per placeholder row
PlaceholderCombos ==
    LET ph == SelectSeq(fill_out, LAMBDA r : ~r.HasRecord)
    IN  [i \in 1..Len(ph) |-> ComboOf(ph[i])]

\* C1: the rows fill_all_vacancies returns cover the expected universe exactly
\* once: a combination some real row holds has no placeholder, and every other
\* combination of the universe has exactly one placeholder
C1_CoverageExactlyOnce ==
    fill_pc = "returned" =>
        LET inUniverse == SelectSeq(PlaceholderCombos, LAMBDA c : c \in ExpectedUniverse)
        IN  /\ Range(inUniverse) \cap PresentCombos = {}
            /\ (ExpectedUniverse \ PresentCombos) \subseteq Range(inUniverse)
            /\ Len(inUniverse) = Cardinality(Range(inUniverse))

\* the same without the multiplicity: every combination of the universe is
\* covered, by a real row or by some placeholder, never by both
C1_CoverageAtLeastOnce ==
    fill_pc = "returned" =>
        /\ Range(PlaceholderCombos) \cap PresentCombos = {}
        /\ (ExpectedUniverse \ PresentCombos) = Range(PlaceholderCombos)

\* the number of rows of 'rows' equal to r
Count(rows, r) == Cardinality({i \in 1..Len(rows) : rows[i] = r})

\* C8: fill_all_vacancies returns every real row with its multiplicity and its
\* field values unchanged, and every other row it returns is a has_record=false
\* placeholder of a combination no real row holds
C8_RealRowsKept ==
    fill_pc = "returned" =>
        /\ \A i \in 1..Len(fill_df) :
               Count(fill_out, fill_df[i]) = Count(fill_df, fill_df[i])
        /\ \A j \in 1..Len(fill_out) :
               fill_out[j] \notin Range(fill_df) =>
                   /\ fill_out[j].HasRecord = FALSE
                   /\ ComboOf(fill_out[j]) \notin PresentCombos

\* a call returned for a frame that holds the same real row twice (a tied
\* record listed twice), with placeholders added
C8_Witness ==
    /\ fill_pc = "returned"
    /\ Len(fill_df) = 2
    /\ fill_df[1] = fill_df[2]
    /\ Len(fill_out) > Len(fill_df)

(***************************************************************************)
(* The raw record parser called on one downloaded file.                    *)
(***************************************************************************)
\* data lines of one sample download
MaxLines == 2

ParseInit ==
    /\ csv_file \in {[readable |-> FALSE, lines |-> <<>>],   \* open() raises OSError
                     [readable |-> TRUE, lines |-> <<>>]}    \* not even a header
                    \cup {CsvFile(lines) : lines \in SeqsOver(SampleLines, 0, MaxLines)}
    /\ parse_out = NoneFrame
    /\ parse_pc = "call"
    /\ FillIdle /\ UploadIdle /\ RunIdle

ReadCsvRobust ==
    /\ parse_pc = "call"
    /\ parse_out' = _read_csv_robust(csv_file)
    /\ parse_pc' = "returned"
    /\ UNCHANGED <<csv_file, fillVars, uploadVars, runVars>>

ParseNext == ReadCsvRobust

SpecParse == ParseInit /\ [][ParseNext]_vars

\* the data lines of the file that have at least seven fields, in file order
LongLines == SelectSeq(Tail(csv_file.lines), LAMBDA raw : Len(raw) >= 7)

\* the row the claim gives a line of seven or more fields, the name of a longer
\* line passed through 'trim'
RowByFieldCount(raw, trim(_)) ==
    [Division |-> raw[1], WeightClass |-> raw[2], Lift |-> raw[3],
     Name |-> IF Len(raw) = 7 THEN raw[4]
              ELSE trim(Join(<<44,32>>, SubSeq(raw, 4, Len(raw) - 3))),   \* ", "
     Kilos |-> to_numeric(raw[Len(raw) - 2]),
     Pounds |-> to_numeric(raw[Len(raw) - 1]),
     Date |-> raw[Len(raw)]]

Same(s) == s

\* C10 as stated: every data line of 7 fields gives one row taken positionally,
\* every longer line one row whose Name is fields 3 up to the last 3 joined with
\* ", ", every shorter line no row, in the order of the lines
C10_RowsByFieldCount ==
    (parse_pc = "returned" /\ csv_file.readable /\ csv_file.lines # <<>>) =>
        /\ parse_out.is_none = (LongLines = <<>>)
        /\ parse_out.rows = [k \in 1..Len(LongLines) |-> RowByFieldCount(LongLines[k], Same)]

\* C10 amended: the same, the joined Name of a longer line stripped of leading
\* and trailing whitespace (line 281)
C10_RowsByFieldCountStripped ==
    (parse_pc = "returned" /\ csv_file.readable /\ csv_file.lines # <<>>) =>
        /\ parse_out.is_none = (LongLines = <<>>)
        /\ parse_out.rows = [k \in 1..Len(LongLines) |-> RowByFieldCount(LongLines[k], Strip)]

\* a file of a short line and a longer line, parsed to the one row of the
\* longer line, whose joined name had whitespace to strip
C10_Witness ==
    /\ parse_pc = "returned"
    /\ Len(csv_file.lines) = 3
    /\ Len(csv_file.lines[2]) \in 1..6
    /\ Len(csv_file.lines[3]) > 7
    /\ Len(parse_out.rows) = 1
    /\ parse_out.rows[1].Name # Join(<<44,32>>, NameFields(csv_file.lines[3]))

(***************************************************************************)
(* The store loader, uspaupload.py.                                        *)
(***************************************************************************)
\* rows of the dataset file read by one load
MaxRecords == 5
\* BATCH_SIZE of line 14 (500 there)
BATCH_SIZE == 2

\* lines 24-50 for one row of the dataset file: the weight class cut to its kg
\* part, the columns renamed
ToRecord(row) ==
    [division |-> row.Division,
     weight_class |-> IF row.WeightClass = None THEN None
                      ELSE Strip(SplitFirst(row.WeightClass, 47)),   \* "/"
     lift |-> row.Lift, name |-> row.Name, kilos |-> row.Kilos, pounds |-> row.Pounds,
     date |-> row.Date, location |-> row.Location, event |-> row.Event,
     status |-> row.Status, has_record |-> row.HasRecord]

\* rows a dataset file holds: a real record, a vacancy, the row of a page
\* without records
DatasetRows ==
    LET url == Url(states[1], statuses[1], events[3])
    IN  WithQueryColumns(_read_csv_robust(CsvFile(<<SampleRecords[1]>>)).rows, url)
        \o <<PlaceholderRow(ALL_DIVISIONS[1], Bench, MENS_WEIGHT_CLASSES[1],
                            location_value(url), event_value(url), status_value(url))>>
        \o no_record_row(url)

\* the number of batches rounded down
total_batches_floor == Len(records) \div BATCH_SIZE

\* math.ceil(len(records) / BATCH_SIZE)
total_batches ==
    IF Len(records) % BATCH_SIZE = 0 THEN Len(records) \div BATCH_SIZE
    ELSE Len(records) \div BATCH_SIZE + 1

\* records[i * BATCH_SIZE : (i + 1) * BATCH_SIZE]
Batch(k) ==
    SubSeq(records, k * BATCH_SIZE + 1,
           IF (k + 1) * BATCH_SIZE < Len(records) THEN (k + 1) * BATCH_SIZE ELSE Len(records))

UploadInit ==
    /\ \E rows \in SeqsOver(DatasetRows, 0, MaxRecords) :
           records = [k \in 1..Len(rows) |-> ToRecord(rows[k])]
    /\ upload_i = 0
    /\ table \in {<<>>, <<ToRecord(DatasetRows[3])>>}   \* what an earlier load left
    /\ store_ops = <<>>
    /\ upload_pc = "clear"
    /\ FillIdle /\ ParseIdle /\ RunIdle

\* line 55: the truncate_uspa_records RPC succeeds
Truncate ==
    /\ upload_pc = "clear"
    /\ table' = <<>>
    /\ store_ops' = Append(store_ops, [op |-> "truncate", rows |-> <<>>])
    /\ upload_i' = 0
    /\ upload_pc' = IF total_batches = 0 THEN "done" ELSE "upload"
    /\ UNCHANGED <<records, fillVars, parseVars, runVars>>

\* line 55 raises: the script ends there
TruncateFails ==
    /\ upload_pc = "clear"
    /\ upload_pc' = "failed"
    /\ UNCHANGED <<records, upload_i, table, store_ops, fillVars, parseVars, runVars>>

\* lines 62-63 for one i: the insert succeeds
InsertBatch ==
    /\ upload_pc = "upload"
    /\ table' = table \o Batch(upload_i)
    /\ store_ops' = Append(store_ops, [op |-> "insert", rows |-> Batch(upload_i)])
    /\ upload_i' = upload_i + 1
    /\ upload_pc' = IF upload_i + 1 < total_batches THEN "upload" ELSE "done"
    /\ UNCHANGED <<records, fillVars, parseVars, runVars>>

\* line 63 raises: the script ends there
InsertFails ==
    /\ upload_pc = "upload"
    /\ upload_pc' = "failed"
    /\ UNCHANGED <<records, upload_i, table, store_ops, fillVars, parseVars, runVars>>

UploadNext == Truncate \/ TruncateFails \/ InsertBatch \/ InsertFails

SpecUpload == UploadInit /\ [][UploadNext]_vars

\* the rows of the insert operations the store has executed, in order
Inserted ==
    Flatten([k \in 1..Len(store_ops) |->
                IF store_ops[k].op = "insert" THEN store_ops[k].rows ELSE <<>>])

\* C9: the table is cleared once and before any insert; every batch has at most
\* BATCH_SIZE rows; the batches in issue order are a prefix of the record list,
\* all of it when the load is done; a failed insert ends the load with the
\* earlier batches in the table and no operation to follow
C9_ClearThenBatches ==
    /\ \A k \in 1..Len(store_ops) : (store_ops[k].op = "truncate") = (k = 1)
    /\ (upload_pc \in {"upload", "done"}) => store_ops # <<>>
    /\ \A k \in 1..Len(store_ops) :
           store_ops[k].op = "insert" => Len(store_ops[k].rows) \in 1..BATCH_SIZE
    /\ Len(Inserted) <= Len(records)
    /\ Inserted = SubSeq(records, 1, Len(Inserted))
    /\ upload_pc = "done" => Inserted = records
    /\ store_ops # <<>> => table = Inserted
    /\ upload_pc = "failed" => ~ENABLED UploadNext

\* the insert of the third batch failed: two batches stay in the table
C9_Witness ==
    /\ upload_pc = "failed"
    /\ upload_i = 2
    /\ Len(records) = 2 * BATCH_SIZE + 1
    /\ Len(table) = 2 * BATCH_SIZE

(***************************************************************************)
(* The scraper as a process: the module-level code of lines 109-123 and    *)
(* 373-423, the pool threads running process_url, a kill of the process    *)
(* and its restart.                                                        *)
(***************************************************************************)
\* urls of the query space that the run covers, in the order of line 109
NumUrls == 2
\* threads of the pool (WORKER_COUNT of line 22 is 12)
NumWorkers == 2
\* rows that reach the file in one write of the buffered handle of to_csv
FlushRows == 1000
\* kills of the process, each followed by a restart
MaxRestarts == 1

\* the k-th element of itertools.product(locations, statuses, events), line 111
ProductUrl(k) ==
    LET nS == Len(statuses)
        nE == Len(events)
    IN  Url(locations[((k - 1) \div (nS * nE)) + 1],
            statuses[(((k - 1) \div nE) % nS) + 1],
            events[((k - 1) % nE) + 1])

urls == [k \in 1..NumUrls |-> ProductUrl(k)]

UrlIndex(url) == CHOOSE k \in 1..NumUrls : urls[k] = url

NoDownload == [readable |-> FALSE, lines |-> <<>>]

\* what the site may serve for a url
Pages ==
    << [kind |-> "csv", payload |-> CsvFile(<<SampleRecords[1]>>)],
       [kind |-> "csv", payload |-> CsvFile(<<SampleRecords[2], SampleRecords[3]>>)],
       [kind |-> "no_button", payload |-> NoDownload],
       [kind |-> "click_error", payload |-> NoDownload],
       [kind |-> "csv", payload |-> CsvFile(<<>>)],
       [kind |-> "get_error", payload |-> NoDownload],
       [kind |-> "download_timeout", payload |-> NoDownload],
       [kind |-> "iframe_timeout", payload |-> NoDownload] >>

\* df of line 389 (None, line 392, included) for urls[k]
FrameOf(k) == scrape_url(Pages[source[k].page], urls[k])

\* page p served for urls[k], with what process_url reads of the df it gets for
\* it: "df is not None" (line 394) and len(df) (line 398)
Served(k, p) ==
    LET df == scrape_url(Pages[p], urls[k])
    IN  [page |-> p, is_none |-> df.is_none, len |-> Len(df.rows)]

\* the url and the df of the process_url call that thread w runs
UrlOf(w) == remaining_urls[worker[w].i]
DfOf(w) == source[UrlIndex(UrlOf(w))]

\* the data rows of OUTPUT_FILE
OutputRows ==
    LET w == SelectSeq(OUTPUT_FILE.writes, LAMBDA x : x.k # 0)
    IN  Flatten([j \in 1..Len(w) |-> SubSeq(FrameOf(w[j].k).rows, w[j].from, w[j].to)])

IdleWorker == [pc |-> "idle", i |-> 0, driver |-> FALSE, written |-> 0]

RunInit ==
    /\ \E s \in 1..Len(Pages) :
           source = [k \in 1..NumUrls |-> Served(k, ((s + k - 2) % Len(Pages)) + 1)]
    /\ CHECKPOINT_FILE = [exists |-> FALSE, lines |-> <<>>]
    /\ OUTPUT_FILE = [exists |-> FALSE, writes |-> <<>>]
    /\ completed_urls = {}
    /\ remaining_urls = <<>>
    /\ rows_written = 0
    /\ lock = FALSE
    /\ queue = <<>>
    /\ futures = <<>>
    /\ worker = [w \in 1..NumWorkers |-> IdleWorker]
    /\ requested = {}
    /\ main_pc = "start"
    /\ restarts = 0
    /\ FillIdle /\ ParseIdle /\ UploadIdle

\* lines 117-123 and 380-381, then the submits of lines 403-405
Startup ==
    /\ main_pc = "start"
    /\ completed_urls' = IF CHECKPOINT_FILE.exists THEN Range(CHECKPOINT_FILE.lines) ELSE {}
    /\ remaining_urls' = SelectSeq(urls, LAMBDA u : u \notin completed_urls')
    /\ rows_written' = 0
    /\ queue' = [j \in 1..Len(remaining_urls') |-> j]
    /\ futures' = [j \in 1..Len(remaining_urls') |-> "pending"]
    /\ main_pc' = "pool"
    /\ UNCHANGED <<source, CHECKPOINT_FILE, OUTPUT_FILE, lock, worker, requested, restarts,
                   fillVars, parseVars, uploadVars>>

\* a pool thread takes the next argument; lines 385-392: get_driver returns a
\* driver and scrape_url returns or raises
Fetch(w) ==
    /\ main_pc = "pool"
    /\ worker[w].pc = "idle"
    /\ queue # <<>>
    /\ worker' = [worker EXCEPT ![w] = [pc |-> "lock", i |-> Head(queue),
                                        driver |-> TRUE, written |-> 0]]
    /\ queue' = Tail(queue)
    /\ futures' = [futures EXCEPT ![Head(queue)] = "running"]
    /\ requested' = requested \cup {remaining_urls[Head(queue)]}
    /\ UNCHANGED <<source, CHECKPOINT_FILE, OUTPUT_FILE, completed_urls, remaining_urls,
                   rows_written, lock, main_pc, restarts, fillVars, parseVars, uploadVars>>

\* a pool thread takes the next argument and make_driver raises at line 386,
\* outside the try: the future holds the exception (line 409)
DriverFails(w) ==
    /\ main_pc = "pool"
    /\ worker[w].pc = "idle"
    /\ ~worker[w].driver
    /\ queue # <<>>
    /\ queue' = Tail(queue)
    /\ futures' = [futures EXCEPT ![Head(queue)] = "error"]
    /\ UNCHANGED <<source, CHECKPOINT_FILE, OUTPUT_FILE, completed_urls, remaining_urls,
                   rows_written, lock, worker, requested, main_pc, restarts,
                   fillVars, parseVars, uploadVars>>

\* "with lock:" entered whatever the lock's state
AcquireLock_unguarded(w) ==
    /\ main_pc = "pool"
    /\ worker[w].pc = "lock"
    /\ lock' = TRUE
    /\ worker' = [worker EXCEPT ![w].pc = IF DfOf(w).is_none THEN "checkpoint" ELSE "write"]
    /\ UNCHANGED <<source, CHECKPOINT_FILE, OUTPUT_FILE, completed_urls, remaining_urls,
                   rows_written, queue, futures, requested, main_pc, restarts,
                   fillVars, parseVars, uploadVars>>

\* line 393: "with lock:" entered, then the test of line 394
AcquireLock(w) ==
    /\ main_pc = "pool"
    /\ worker[w].pc = "lock"
    /\ ~lock
    /\ lock' = TRUE
    /\ worker' = [worker EXCEPT ![w].pc = IF DfOf(w).is_none THEN "checkpoint" ELSE "write"]
    /\ UNCHANGED <<source, CHECKPOINT_FILE, OUTPUT_FILE, completed_urls, remaining_urls,
                   rows_written, queue, futures, requested, main_pc, restarts,
                   fillVars, parseVars, uploadVars>>

\* lines 396-398: to_csv appends the next FlushRows rows of df, after the header
\* when the file did not exist; line 398 once the last row is written
WriteRows(w) ==
    /\ main_pc = "pool"
    /\ worker[w].pc = "write"
    /\ LET n == DfOf(w).len
           from == worker[w].written + 1
           to == IF worker[w].written + FlushRows < n THEN worker[w].written + FlushRows ELSE n
           header == IF OUTPUT_FILE.exists THEN <<>> ELSE <<[k |-> 0, from |-> 0, to |-> 0]>>
       IN  /\ OUTPUT_FILE' = [exists |-> TRUE,
                              writes |-> OUTPUT_FILE.writes \o header
                                  \o <<[k |-> UrlIndex(UrlOf(w)), from |-> from, to |-> to]>>]
           /\ worker' = [worker EXCEPT ![w].written = to,
                                       ![w].pc = IF to = n THEN "checkpoint" ELSE "write"]
           /\ rows_written' = IF to = n THEN rows_written + n ELSE rows_written
    /\ UNCHANGED <<source, CHECKPOINT_FILE, completed_urls, remaining_urls, lock, queue,
                   futures, requested, main_pc, restarts, fillVars, parseVars, uploadVars>>

\* lines 399-400, and the lock released on leaving the with block
WriteCheckpoint(w) ==
    /\ main_pc = "pool"
    /\ worker[w].pc = "checkpoint"
    /\ CHECKPOINT_FILE' = [exists |-> TRUE, lines |-> Append(CHECKPOINT_FILE.lines, UrlOf(w))]
    /\ lock' = FALSE
    /\ futures' = [futures EXCEPT ![worker[w].i] = "done"]
    /\ worker' = [worker EXCEPT ![w].pc = "idle", ![w].i = 0, ![w].written = 0]
    /\ UNCHANGED <<source, OUTPUT_FILE, completed_urls, remaining_urls, rows_written, queue,
                   requested, main_pc, restarts, fillVars, parseVars, uploadVars>>

\* lines 406-423: every future has ended, the drivers quit, and the final output
\* unlinks the checkpoint file when the output file exists
FinalOutput ==
    /\ main_pc = "pool"
    /\ \A j \in 1..Len(futures) : futures[j] \in {"done", "error"}
    /\ worker' = [w \in 1..NumWorkers |-> IdleWorker]
    /\ CHECKPOINT_FILE' = IF OUTPUT_FILE.exists THEN [exists |-> FALSE, lines |-> <<>>]
                          ELSE CHECKPOINT_FILE
    /\ main_pc' = "done"
    /\ UNCHANGED <<source, OUTPUT_FILE, completed_urls, remaining_urls, rows_written, lock,
                   queue, futures, requested, restarts, fillVars, parseVars, uploadVars>>

\* the process is killed while the pool runs: only the two files survive
Crash ==
    /\ main_pc = "pool"
    /\ restarts < MaxRestarts
    /\ completed_urls' = {}
    /\ remaining_urls' = <<>>
    /\ rows_written' = 0
    /\ lock' = FALSE
    /\ queue' = <<>>
    /\ futures' = <<>>
    /\ worker' = [w \in 1..NumWorkers |-> IdleWorker]
    /\ requested' = {}
    /\ main_pc' = "crashed"
    /\ UNCHANGED <<source, CHECKPOINT_FILE, OUTPUT_FILE, restarts,
                   fillVars, parseVars, uploadVars>>

\* the script is started again with the same configuration
Restart ==
    /\ main_pc = "crashed"
    /\ main_pc' = "start"
    /\ restarts' = restarts + 1
    /\ UNCHANGED <<source, CHECKPOINT_FILE, OUTPUT_FILE, completed_urls, remaining_urls,
                   rows_written, lock, queue, futures, worker, requested,
                   fillVars, parseVars, uploadVars>>

RunNext ==
    \/ Startup
    \/ \E w \in 1..NumWorkers : Fetch(w)
    \/ \E w \in 1..NumWorkers : DriverFails(w)
    \/ \E w \in 1..NumWorkers : AcquireLock(w)
    \/ \E w \in 1..NumWorkers : WriteRows(w)
    \/ \E w \in 1..NumWorkers : WriteCheckpoint(w)
    \/ FinalOutput
    \/ Crash
    \/ Restart

SpecRun == RunInit /\ [][RunNext]_vars

(***************************************************************************)
(* What the two files hold.                                                *)
(***************************************************************************)
\* thread w is inside the "with lock:" block of lines 393-400
InCriticalSection(w) == worker[w].pc \in {"write", "checkpoint"}

\* the url of urls[k] is a line of CHECKPOINT_FILE
Checkpointed(k) == urls[k] \in Range(CHECKPOINT_FILE.lines)

\* the data rows of urls[k] in OUTPUT_FILE, in file order
RowsOf(k) ==
    LET w == SelectSeq(OUTPUT_FILE.writes, LAMBDA x : x.k = k)
        rows == FrameOf(k).rows
    IN  Flatten([j \in 1..Len(w) |-> SubSeq(rows, w[j].from, w[j].to)])

\* OUTPUT_FILE holds the whole df of urls[k]: writes that follow one another
\* and cover its rows 1..len(df)
BlockWritten(k) ==
    LET f == OUTPUT_FILE.writes
    IN  \E a \in 1..Len(f) : \E b \in a..Len(f) :
            /\ f[a].from = 1
            /\ f[b].to = source[k].len
            /\ \A j \in a..b : f[j].k = k /\ (j > a => f[j].from = f[j - 1].to + 1)

\* C2: outside the critical section of the thread that handles it, and in the
\* state a kill of the process leaves, the url of a query whose df is not None
\* is in the checkpoint file if and only if its row block is in the dataset file
C2_AppendAndCheckpointAtomic ==
    \A k \in 1..NumUrls :
        ( /\ main_pc \in {"pool", "crashed"}
          /\ ~source[k].is_none
          /\ \A w \in 1..NumWorkers : ~(InCriticalSection(w) /\ UrlOf(w) = urls[k]) )
        => (Checkpointed(k) <=> BlockWritten(k))

\* the two sequences hold the same rows with the same multiplicities
SameRows(a, b) ==
    /\ Len(a) = Len(b)
    /\ \A r \in Range(a) \cup Range(b) : Count(a, r) = Count(b, r)

\* OUTPUT_FILE holds, for every url whose df is not None, one whole block and
\* nothing else: the rows of an uninterrupted run, in some order of the blocks
OneBlockPerUrl ==
    LET f == SelectSeq(OUTPUT_FILE.writes, LAMBDA x : x.k # 0)
    IN  /\ \A j \in 1..Len(f) : f[j].from = IF j > 1 /\ f[j - 1].k = f[j].k
                                             THEN f[j - 1].to + 1 ELSE 1
        /\ \A j \in 1..Len(f) : (j = Len(f) \/ f[j + 1].k # f[j].k) => f[j].to = source[f[j].k].len
        /\ \A k \in 1..NumUrls :
               Cardinality({j \in 1..Len(f) : f[j].k = k /\ f[j].from = 1})
                   = IF source[k].is_none THEN 0 ELSE 1

\* the rows an uninterrupted run over urls appends, in the order of urls
UninterruptedRows == Flatten([k \in 1..NumUrls |-> FrameOf(k).rows])

\* C3: a restart after a kill passes to driver.get exactly the urls that are
\* not in the checkpoint file, and when it ends with every query handled the
\* dataset file holds the rows of an uninterrupted run with their multiplicities
C3_ResumeCorrect ==
    /\ (restarts > 0 /\ main_pc \in {"pool", "done"}) =>
           /\ requested \cap completed_urls = {}
           /\ requested \subseteq Range(urls)
    /\ ( /\ restarts > 0
         /\ main_pc = "done"
         /\ \A j \in 1..Len(futures) : futures[j] = "done" ) =>
           /\ requested = Range(urls) \ completed_urls
           /\ OneBlockPerUrl \/ SameRows(OutputRows, UninterruptedRows)

\* the visit of the page yields zero real rows: no download control, no file
\* within the wait, or a payload without data rows
ZeroRealRows(page) ==
    \/ page.kind \in {"no_button", "download_timeout"}
    \/ /\ page.kind = "csv"
       /\ LET parsed == _read_csv_robust(page.payload)
          IN  parsed.is_none \/ parsed.rows = <<>>

\* the visit of the page ends with an exception: navigation, the wait for the
\* iframe, or the interaction with the page
StructuralError(page) == page.kind \in {"get_error", "iframe_timeout", "click_error"}

\* the k of the url of future j
QueryOf(j) == UrlIndex(remaining_urls[j])

\* the rows of the full reference universe for the event of url: one per
\* reference division, lift of the event and weight class of the division
ReferenceUniverseSize(url) ==
    Len(Flatten([d \in 1..Len(ALL_DIVISIONS) |->
            Flatten([l \in 1..Len(_expected_lifts(event_value(url))) |->
                _expected_weight_classes(ALL_DIVISIONS[d])])]))

C6_ClearedOnlyWhenComplete ==
    [][ /\ (CHECKPOINT_FILE.exists /\ ~CHECKPOINT_FILE'.exists) =>
               /\ \A j \in 1..Len(futures) : futures[j] = "done"
               /\ Range(remaining_urls) \subseteq Range(CHECKPOINT_FILE.lines)
        /\ (CHECKPOINT_FILE.exists /\ CHECKPOINT_FILE'.exists) =>
               /\ Len(CHECKPOINT_FILE.lines) <= Len(CHECKPOINT_FILE'.lines)
               /\ CHECKPOINT_FILE.lines =
                      SubSeq(CHECKPOINT_FILE'.lines, 1, Len(CHECKPOINT_FILE.lines))
        /\ main_pc' = "crashed" => CHECKPOINT_FILE' = CHECKPOINT_FILE
      ]_vars

\* C7: at most one thread is inside the block that writes the two files, the
\* lock is held exactly while one is, and every write that continues a block
\* follows the write before it of the same block: the rows of a query are
\* never interleaved with those of another
C7_OneWriterContiguousBlocks ==
    LET f == OUTPUT_FILE.writes
    IN  /\ Cardinality({w \in 1..NumWorkers : InCriticalSection(w)}) <= 1
        /\ main_pc = "pool" => (lock <=> \E w \in 1..NumWorkers : InCriticalSection(w))
        /\ \A j \in 1..Len(f) :
               f[j].from > 1 => /\ j > 1
                                /\ f[j - 1].k = f[j].k
                                /\ f[j - 1].to = f[j].from - 1
        /\ \A w \in 1..NumWorkers :
               (InCriticalSection(w) /\ worker[w].written > 0) =>
                   /\ f[Len(f)].k = QueryOf(worker[w].i)
                   /\ f[Len(f)].to = worker[w].written
        /\ \A w \in 1..NumWorkers :
               (worker[w].pc = "checkpoint" /\ ~DfOf(w).is_none) =>
                   BlockWritten(QueryOf(worker[w].i))

\* one thread has written the first part of its block and holds the lock while
\* another waits for it with rows to write
C7_Witness ==
    \E w1, w2 \in 1..NumWorkers :
        /\ worker[w1].pc = "write" /\ worker[w1].written > 0
        /\ worker[w2].pc = "lock" /\ ~DfOf(w2).is_none

=============================================================================
